---- MODULE Spec2Model ----
\* Model of src/main.py: the Fetch Client (make_api_call), the trading-pair
\* catalog memoised on normalize_symbol, the Series Fetcher (get_klines) and
\* the Indicator Engine (analyze_technical).
EXTENDS Integers, Sequences, FiniteSets, TLC

VARIABLES
    call,           \* Spec: the frame of one running make_api_call
    trading_pairs,  \* normalize_symbol.trading_pairs: [set |-> BOOLEAN, pairs |-> set]
    pc,             \* per task: where its analyze_technical coroutine is suspended
    input,          \* per task: the symbol argument
    fetched,        \* per task: how its own get_exchange_info call ended
    resolved,       \* per task: what normalize_symbol returned
    result,         \* per task: what analyze_technical returned
    infoCalls,      \* number of make_api_call(EXCHANGE_INFO_URL) calls started
    klines,         \* AnalyzeSpec: the value get_klines returned
    lib,            \* AnalyzeSpec: what the ta library calls do
    analysis,       \* AnalyzeSpec: what analyze_technical returned
    lookup,         \* CoinSpec: the frame of one get_coin_id_and_name call
    populations     \* history: per assignment to trading_pairs, did its fetch fail

vars == <<call, trading_pairs, pc, input, fetched, resolved, result, infoCalls,
          klines, lib, analysis, lookup, populations>>

\* ---------------------------------------------------------------- strings
\* A Python str is modelled as the sequence of its characters.
USDT == <<"U", "S", "D", "T">>
BTC == <<"B", "T", "C">>

\* str.upper() on one character of the model's alphabet
UpperChar(c) ==
    CASE c = "b" -> "B"
      [] c = "t" -> "T"
      [] c = "c" -> "C"
      [] c = "e" -> "E"
      [] c = "h" -> "H"
      [] c = "x" -> "X"
      [] c = "i" -> "I"
      [] OTHER -> c

upper(s) == [i \in 1..Len(s) |-> UpperChar(s[i])]

\* s.replace(ch, '')
RECURSIVE remove(_, _)
remove(s, ch) ==
    IF s = <<>> THEN <<>>
    ELSE IF Head(s) = ch THEN remove(Tail(s), ch)
    ELSE <<Head(s)>> \o remove(Tail(s), ch)

\* ------------------------------------------------------------ Fetch Client
max_retries == 3

\* Payloads of the instrument-listing endpoint: a dict with a 'symbols' list,
\* or a JSON document without it.
Listing(pairs) == [shape |-> "listing", symbols |-> pairs, rows |-> <<>>]
NoListing == [shape |-> "other", symbols |-> {}, rows |-> <<>>]

Catalogs ==
    { {<<"B","T","C">> \o USDT, <<"E","T","H">> \o USDT},
      {<<"E","T","H">> \o USDT, <<"E","T","H">> \o BTC},
      {<<"E","T","H">> \o BTC},
      {} }

InfoPayloads == {Listing(c) : c \in Catalogs} \cup {NoListing}

\* What the upstream can answer to one GET: a status line with a JSON body, or
\* no answer at all (connection error, timeout).
StatusCodes == {200, 404, 429, 500}

Response(t, s, b) == [type |-> t, status |-> s, body |-> b]

Responses ==
    {Response("status", s, NoListing) : s \in StatusCodes \ {200}}
    \cup {Response("status", 200, b) : b \in InfoPayloads}
    \cup {Response("ClientError", 0, NoListing), Response("TimeoutError", 0, NoListing)}

\* frame of make_api_call on entry. state says where the coroutine is: "running"
\* (suspended in session.get), "sleeping" (in asyncio.sleep), "reading" (in
\* response.json()), or ended as "returned" or "raised"
NewCall ==
    [state |-> "running", attempt |-> 0, requests |-> 0, slept |-> <<>>,
     log |-> <<>>, exc |-> "none", status |-> 0, value |-> NoListing]

NoCall == [NewCall EXCEPT !.state = "none"]

\* range(max_retries) is exhausted
LoopDoneOffByOne(attempt) == attempt > max_retries
LoopDone(attempt) == attempt >= max_retries

\* wait_time = 2 ** attempt
BackoffLinear(attempt) == 2 * attempt
Backoff(attempt) == 2 ^ attempt

\* response.raise_for_status(): aiohttp raises ClientResponseError for 400 <= status
RaisesForStatus(status) == status >= 400

\* if attempt == max_retries - 1: raise
IsLastAttempt(attempt) == attempt = max_retries - 1

\* the loop falls through to: raise Exception("Max retries exceeded")
MaxRetriesExceeded == "Exception: Max retries exceeded"

\* next iteration of the for loop, or line 66 when the range is exhausted
NextIteration(c) ==
    IF LoopDone(c.attempt + 1)
    THEN [c EXCEPT !.attempt = c.attempt + 1, !.state = "raised", !.exc = MaxRetriesExceeded]
    ELSE [c EXCEPT !.attempt = c.attempt + 1, !.state = "running"]

\* the 429 branch up to its await: wait_time = 2 ** attempt, asyncio.sleep(wait_time);
\* the continue follows when the sleep ends
OnRateLimitNoBudget(c) ==
    [c EXCEPT !.slept = Append(c.slept, Backoff(c.attempt)), !.state = "sleeping",
              !.attempt = c.attempt - 1]
OnRateLimit(c) ==
    [c EXCEPT !.slept = Append(c.slept, Backoff(c.attempt)), !.state = "sleeping"]

\* except (aiohttp.ClientError, asyncio.TimeoutError): re-raise on the last
\* attempt, else asyncio.sleep(1); the loop goes round when the sleep ends
OnError(c, e, s) ==
    IF IsLastAttempt(c.attempt)
    THEN [c EXCEPT !.state = "raised", !.exc = e, !.status = s]
    ELSE [c EXCEPT !.slept = Append(c.slept, 1), !.state = "sleeping"]

\* session.get is answered by r: the iteration runs to its next await or to the
\* end of the call
Answer(c, r) ==
    LET c1 == [c EXCEPT !.requests = c.requests + 1, !.log = Append(c.log, r)] IN
    IF r.type = "status"
    THEN IF r.status = 429
         THEN OnRateLimit(c1)
         ELSE IF RaisesForStatus(r.status)
              \* ClientResponseError is a subclass of aiohttp.ClientError
              THEN OnError(c1, "ClientResponseError", r.status)
              \* return await response.json()
              ELSE [c1 EXCEPT !.state = "reading"]
    ELSE OnError(c1, r.type, 0)

\* response.json() gives the body of the answer just taken, which is returned
ReadJson(c) == [c EXCEPT !.state = "returned", !.value = c.log[Len(c.log)].body]

\* from an await inside the iteration to the next session.get or the end
Resume(c) ==
    IF c.state = "sleeping" THEN NextIteration(c)
    ELSE IF c.state = "reading" THEN ReadJson(c)
    ELSE c

\* One iteration of the for loop: one GET answered by r, its sleep or its
\* body read included.
Iterate(c, r) == Resume(Answer(c, r))

\* make_api_call run to its end against the successive answers in script
RECURSIVE make_api_call(_, _)
make_api_call(c, script) ==
    IF c.state # "running" \/ script = <<>> THEN c
    ELSE make_api_call(Iterate(c, Head(script)), Tail(script))

Scripts == [1..max_retries -> Responses]

\* what the caller of make_api_call gets: the returned JSON or the raised exception
Outcome(c) == [state |-> c.state, exc |-> c.exc, status |-> c.status, value |-> c.value]

\* --------------------------------------------------------- Catalog Cache
None == <<>>

\* data['symbols'] comprehension of get_exchange_info, before its except clause
ParseListing(c) ==
    IF c.state = "raised" THEN [exc |-> c.exc, value |-> {}]
    ELSE IF c.value.shape = "listing" THEN [exc |-> "none", value |-> c.value.symbols]
    ELSE [exc |-> "KeyError", value |-> {}]

\* except Exception: every exception the body can raise is an Exception
OnlyClientErrors(e) == e \in {"ClientError", "ClientResponseError", "TimeoutError"}
CaughtByExcept(e) == e # "none"

\* get_exchange_info, given how its make_api_call ended
get_exchange_info(c) ==
    LET r == ParseListing(c) IN
    IF CaughtByExcept(r.exc) THEN [exc |-> "none", value |-> {}] ELSE r

\* symbol.upper().replace('/', '').replace('-', '')
normalize(symbol) == remove(remove(upper(symbol), "/"), "-")

\* the membership tests of normalize_symbol
LookupBtcFirst(sym, pairs) ==
    IF (sym \o BTC) \in pairs THEN sym \o BTC
    ELSE IF (sym \o USDT) \in pairs THEN sym \o USDT
    ELSE None
Lookup(sym, pairs) ==
    IF (sym \o USDT) \in pairs THEN sym \o USDT
    ELSE IF (sym \o BTC) \in pairs THEN sym \o BTC
    ELSE None

\* if not hasattr(normalize_symbol, 'trading_pairs')
NeedsPopulationOrEmpty(tp) == ~tp.set \/ tp.pairs = {}
NeedsPopulation(tp) == ~tp.set

\* normalize_symbol.trading_pairs = <value returned by get_exchange_info>
StoreUnlessEmpty(tp, v) == IF v = {} THEN tp ELSE [set |-> TRUE, pairs |-> v]
Store(tp, v) == [set |-> TRUE, pairs |-> v]

\* -------------------------------------------------------- Series Fetcher
\* A field of a candle row as the upstream sends it: text that float() turns
\* into a number, text it turns into NaN, or text it rejects. A close of v
\* stands for the price v / 10000, so that 2 decimal digits are multiples of 100.
Num(v) == [tag |-> "num", v |-> v]
NaN == [tag |-> "nan", v |-> 0]
Bad == [tag |-> "bad", v |-> 0]

\* others stands for the six float fields besides close and volume
Item(t, c, v, o) == [open_time |-> t, close |-> c, volume |-> v, others |-> o]

Fields(item) == {item.close, item.volume, item.others}

\* float(x) raises ValueError
CoercionFails(item) == \E f \in Fields(item) : f.tag = "bad"

\* the loop over data of get_klines, before its except clause
ParseKlines(c) ==
    IF c.state = "raised" THEN [exc |-> c.exc, value |-> <<>>]
    ELSE IF \E i \in 1..Len(c.value.rows) : CoercionFails(c.value.rows[i])
         THEN [exc |-> "ValueError", value |-> <<>>]
         ELSE [exc |-> "none", value |-> c.value.rows]

\* get_klines once the symbol is resolved, given how its make_api_call ended
get_klinesNoExcept(c) == ParseKlines(c)
get_klines(c) ==
    LET r == ParseKlines(c) IN
    IF CaughtByExcept(r.exc) THEN [exc |-> "none", value |-> <<>>] ELSE r

\* ------------------------------------------------------ Indicator Engine
MinRows == 50

\* df.dropna(): a row with NaN in any column goes
HasNaN(row) == \E f \in Fields(row) : f.tag = "nan"
dropna(rows) == SelectSeq(rows, LAMBDA r : ~HasNaN(r))

\* round(a / b) to the nearest integer, ties to even, for b > 0
RoundDiv(a, b) ==
    LET q == a \div b
        r == a % b
    IN IF 2 * r < b THEN q
       ELSE IF 2 * r > b THEN q + 1
       ELSE IF q % 2 = 0 THEN q ELSE q + 1

\* round(((current - previous) / previous) * 100, 2) if previous > 0 else 0,
\* in hundredths of a percent
\* (without the test numpy divides by zero to inf, shown as a value no percentage has)
VolumeChangeUnguarded(current, previous) ==
    IF previous > 0 THEN RoundDiv(10000 * (current - previous), previous)
    ELSE 10000 * current + 1
VolumeChange(current, previous) ==
    IF previous > 0 THEN RoundDiv(10000 * (current - previous), previous) ELSE 0

NoSnapshot ==
    [price |-> 0, rsi |-> "", ema20 |-> "", ema50 |-> "", macd |-> "",
     volume_change_1h |-> 0, volume_change_24h |-> 0]

\* the dict built at the end of analyze_technical; the values the ta library
\* computes are kept symbolic, l tells whether it returned numbers or NaN
Snapshot(df, l) ==
    LET n == Len(df) IN
    [price |-> df[n].close.v,
     rsi |-> IF l = "nan" THEN "50" ELSE "round(rsi, 2)",
     ema20 |-> IF l = "nan" THEN "price" ELSE "round(ema20, 2)",
     ema50 |-> IF l = "nan" THEN "price" ELSE "round(ema50, 2)",
     macd |-> IF l = "nan" THEN "0" ELSE "round(macd, 4)",
     volume_change_1h |-> VolumeChange(df[n].volume.v, df[n - 1].volume.v),
     volume_change_24h |->
        IF n > 24 THEN VolumeChange(df[n].volume.v, df[n - 24].volume.v) ELSE 0]

\* index is the DataFrame's index, the open_time of each of its rows
NotDone ==
    [done |-> FALSE, ret |-> "None", logged |-> "", rows |-> 0, index |-> <<>>,
     snapshot |-> NoSnapshot]

\* return None after logger.error(msg)
ReturnNone(msg, n) ==
    [done |-> TRUE, ret |-> "None", logged |-> msg, rows |-> n, index |-> <<>>,
     snapshot |-> NoSnapshot]

\* df.set_index('timestamp'): the rows keep their order and their timestamps
Index(df) == [i \in 1..Len(df) |-> df[i].open_time]

\* if len(df) < 50
GateOffByOne(n) == n < MinRows - 1
GateClosed(n) == n < MinRows

\* analyze_technical from the value get_klines returned
analyze_technical(kl, l) ==
    IF kl = <<>> THEN ReturnNone("No data available", 0)
    ELSE LET df == dropna(kl) IN
         IF GateClosed(Len(df))
         THEN [ReturnNone("Insufficient data", Len(df)) EXCEPT !.index = Index(df)]
         ELSE IF l = "raise"
         THEN [ReturnNone("Error calculating indicators", Len(df)) EXCEPT !.index = Index(df)]
         ELSE [done |-> TRUE, ret |-> "dict", logged |-> "", rows |-> Len(df),
               index |-> Index(df), snapshot |-> Snapshot(df, l)]

LibBehaviours == {"ok", "nan", "raise"}

\* ------------------------------------------- Symbol Resolver, coin catalog
\* a JSON body of the coin endpoints: /coins/{id} gives one entry with id,
\* symbol and name, /search a dict with a 'coins' list
Coin(id, sym, name) == [id |-> id, symbol |-> sym, name |-> name]
CoinBody(coin) == [shape |-> "coin", symbols |-> {}, rows |-> <<coin>>]
SearchBody(coins) == [shape |-> "search", symbols |-> {}, rows |-> coins]

NoRet == [coin_id |-> "", symbol |-> <<>>, suggestions |-> <<>>, name |-> ""]

\* return coin['id'], coin['symbol'].upper(), coin['name']
Found(coin) ==
    [coin_id |-> coin.id, symbol |-> upper(coin.symbol), suggestions |-> <<>>,
     name |-> coin.name]

\* return None, suggestions, None: the list stands where the symbol would
Suggest(list) ==
    [coin_id |-> "None", symbol |-> None, suggestions |-> list, name |-> "None"]

\* the first try block of get_coin_id_and_name: a truthy payload with the three
\* keys resolves; an exception or a falsy payload falls through to the search
DirectLookup(c) ==
    IF c.state = "returned" /\ c.value.shape = "coin"
    THEN [hit |-> TRUE, ret |-> Found(c.value.rows[1])]
    ELSE [hit |-> FALSE, ret |-> NoRet]

\* search_data.get('coins', [])
CoinsOf(c) == IF c.value.shape = "search" THEN c.value.rows ELSE <<>>

\* [coin for coin in coins if coin['symbol'].upper() == symbol_upper]
ExactInFirstFive(coins, s) ==
    SelectSeq(SubSeq(coins, 1, IF Len(coins) < 5 THEN Len(coins) ELSE 5),
              LAMBDA k : upper(k.symbol) = upper(s))
ExactMatches(coins, s) == SelectSeq(coins, LAMBDA k : upper(k.symbol) = upper(s))

MaxSuggestions == 5

\* coins[:5]
LastFive(coins) ==
    SubSeq(coins, IF Len(coins) < MaxSuggestions THEN 1 ELSE Len(coins) - MaxSuggestions + 1,
           Len(coins))
FirstFive(coins) ==
    SubSeq(coins, 1, IF Len(coins) < MaxSuggestions THEN Len(coins) ELSE MaxSuggestions)

Suggestion(coin) == [id |-> coin.id, symbol |-> upper(coin.symbol), name |-> coin.name]

\* the second try block, before its except clause
SearchBlock(s, c) ==
    IF c.state = "raised" THEN [exc |-> c.exc, ret |-> NoRet]
    ELSE LET coins == CoinsOf(c) IN
         IF coins = <<>> THEN [exc |-> "none", ret |-> Suggest(<<>>)]
         ELSE LET exact == ExactMatches(coins, s) IN
              IF exact # <<>> THEN [exc |-> "none", ret |-> Found(exact[1])]
              ELSE LET first == FirstFive(coins) IN
                   [exc |-> "none",
                    ret |-> Suggest([i \in 1..Len(first) |-> Suggestion(first[i])])]

\* except Exception of the search block
SearchCaughtClientOnly(e) == e \in {"ClientError", "ClientResponseError", "TimeoutError"}
SearchCaught(e) == e # "none"

\* the search part of get_coin_id_and_name, given how its make_api_call ended
CoinSearch(s, c) ==
    LET r == SearchBlock(s, c) IN
    IF SearchCaught(r.exc) THEN [exc |-> "none", ret |-> Suggest(<<>>)] ELSE r

\* no get_coin_id_and_name call is running
NoLookup ==
    [pc |-> "none", input |-> <<>>, hit |-> FALSE, searches |-> 0, search |-> "none",
     coins |-> <<>>, exc |-> "none", ret |-> NoRet]

\* ------------------------------------------------ Spec: one make_api_call
InitOther ==
    /\ trading_pairs = [set |-> FALSE, pairs |-> {}]
    /\ populations = <<>>
    /\ pc = <<>>
    /\ input = <<>>
    /\ fetched = <<>>
    /\ resolved = <<>>
    /\ result = <<>>
    /\ infoCalls = 0
    /\ klines = <<>>
    /\ lib = "ok"
    /\ analysis = NotDone
    /\ lookup = NoLookup

Init ==
    /\ call = NewCall
    /\ InitOther

\* session.get(...) is answered by r and the iteration runs to its next await
Attempt(r) ==
    /\ call.state = "running"
    /\ call' = Answer(call, r)
    /\ UNCHANGED <<trading_pairs, populations, pc, input, fetched, resolved, result,
                   infoCalls, klines, lib, analysis, lookup>>

\* asyncio.sleep(...) ends: continue, or line 66 after the last iteration
Wake ==
    /\ call.state = "sleeping"
    /\ call' = NextIteration(call)
    /\ UNCHANGED <<trading_pairs, populations, pc, input, fetched, resolved, result,
                   infoCalls, klines, lib, analysis, lookup>>

\* response.json() ends and make_api_call returns the payload
ReadBody ==
    /\ call.state = "reading"
    /\ call' = ReadJson(call)
    /\ UNCHANGED <<trading_pairs, populations, pc, input, fetched, resolved, result,
                   infoCalls, klines, lib, analysis, lookup>>

Next ==
    \/ \E r \in Responses : Attempt(r)
    \/ Wake
    \/ ReadBody

Spec == Init /\ [][Next]_vars

\* every GET is answered or times out (timeout=10) and every sleep ends, so a
\* running call always takes its next step
FairSpec == Spec /\ WF_vars(Next)

\* ------------------------- CatalogSpec: concurrent analyze_technical tasks
NumProcs == 2
Procs == 1..NumProcs

Inputs ==
    { <<"b", "t", "c">>, <<"e", "t", "h">>, <<"E", "-", "t", "/", "h">>, <<"x">> }

\* candle payloads: up to MaxItems rows, each well-formed, with a NaN close or
\* with a volume that float() rejects
MaxItems == 2
ItemKinds == {"good", "nan", "bad"}

MakeItem(i, kind) ==
    Item(i, IF kind = "nan" THEN NaN ELSE Num(100 + i),
         IF kind = "bad" THEN Bad ELSE Num(10 * i), Num(1))

KlinesPayload(kinds) ==
    [shape |-> "klines", symbols |-> {},
     rows |-> [i \in 1..Len(kinds) |-> MakeItem(i, kinds[i])]]

KlinesPayloads ==
    {KlinesPayload(ks) : ks \in UNION {[1..k -> ItemKinds] : k \in 0..MaxItems}}

KlinesResponses ==
    {Response("status", s, NoListing) : s \in StatusCodes \ {200}}
    \cup {Response("status", 200, b) : b \in KlinesPayloads}
    \cup {Response("ClientError", 0, NoListing), Response("TimeoutError", 0, NoListing)}

\* every way make_api_call(EXCHANGE_INFO_URL) and make_api_call(BINANCE_API_URL)
\* can end
InfoOutcomes == {Outcome(make_api_call(NewCall, sc)) : sc \in Scripts}
KlinesOutcomes ==
    {Outcome(make_api_call(NewCall, sc)) : sc \in [1..max_retries -> KlinesResponses]}

NoFetch == [done |-> FALSE, failed |-> FALSE, cause |-> "none", exc |-> "none", value |-> {}]
\* what one analyze_technical call did: how its candle request ended (none when
\* the symbol did not resolve) and the rows of its payload, what get_klines
\* returned, the exception that left analyze_technical, and its return value
NoCandles == [state |-> "none", exc |-> "none", rows |-> <<>>]
Candles(c) == [state |-> c.state, exc |-> c.exc, rows |-> c.value.rows]
NoResult == [fetch |-> NoCandles, klines |-> <<>>, exc |-> "none", out |-> NotDone]
Unresolved ==
    [fetch |-> NoCandles, klines |-> <<>>, exc |-> "none",
     out |-> analyze_technical(<<>>, "ok")]

\* the population fetch failed: make_api_call raised, or its payload has no listing
FetchFailed(c) == c.state = "raised" \/ c.value.shape # "listing"

InitCatalog ==
    /\ call = NoCall
    /\ trading_pairs = [set |-> FALSE, pairs |-> {}]
    /\ populations = <<>>
    /\ pc = [p \in Procs |-> "idle"]
    /\ input = [p \in Procs |-> <<>>]
    /\ fetched = [p \in Procs |-> NoFetch]
    /\ resolved = [p \in Procs |-> None]
    /\ result = [p \in Procs |-> NoResult]
    /\ infoCalls = 0
    /\ klines = <<>>
    /\ lib = "ok"
    /\ analysis = NotDone
    /\ lookup = NoLookup

\* the rest of normalize_symbol and get_klines up to the next await: the lookup
\* in pairs, then either the candle request or return [] and, in
\* analyze_technical, return None
Resolve(p, s, pairs) ==
    LET r == Lookup(normalize(s), pairs) IN
    /\ resolved' = [resolved EXCEPT ![p] = r]
    /\ IF r = None
       THEN /\ pc' = [pc EXCEPT ![p] = "done"]
            /\ result' = [result EXCEPT ![p] = Unresolved]
       ELSE /\ pc' = [pc EXCEPT ![p] = "await_klines"]
            /\ UNCHANGED result

\* analyze_technical(s) is called: get_klines, normalize_symbol up to its first await
Start(p, s) ==
    /\ pc[p] = "idle"
    /\ input' = [input EXCEPT ![p] = s]
    /\ IF NeedsPopulation(trading_pairs)
       THEN /\ pc' = [pc EXCEPT ![p] = "await_info"]
            /\ infoCalls' = infoCalls + 1
            /\ UNCHANGED <<resolved, result>>
       ELSE /\ Resolve(p, s, trading_pairs.pairs)
            /\ UNCHANGED infoCalls
    /\ UNCHANGED <<lookup, call, trading_pairs, populations, fetched, klines, lib, analysis>>

\* await get_exchange_info() resumes with the call ended as c
InfoDone(p, c) ==
    /\ pc[p] = "await_info"
    /\ LET g == get_exchange_info(c) IN
       /\ fetched' = [fetched EXCEPT ![p] =
                        [done |-> TRUE, failed |-> FetchFailed(c),
                         cause |-> ParseListing(c).exc,
                         exc |-> g.exc, value |-> g.value]]
       /\ IF g.exc = "none"
          THEN /\ trading_pairs' = Store(trading_pairs, g.value)
               /\ populations' = Append(populations, FetchFailed(c))
               /\ Resolve(p, input[p], trading_pairs'.pairs)
          ELSE \* the exception leaves normalize_symbol and is caught in get_klines
               /\ UNCHANGED <<trading_pairs, populations, resolved>>
               /\ pc' = [pc EXCEPT ![p] = "done"]
               /\ result' = [result EXCEPT ![p] = Unresolved]
    /\ UNCHANGED <<lookup, call, input, infoCalls, klines, lib, analysis>>

\* await make_api_call(BINANCE_API_URL, params) resumes with the call ended as
\* c; get_klines returns and analyze_technical runs to its end
KlinesDone(p, c, l) ==
    /\ pc[p] = "await_klines"
    /\ LET g == get_klines(c) IN
       result' = [result EXCEPT ![p] =
                    IF g.exc = "none"
                    THEN [fetch |-> Candles(c), klines |-> g.value, exc |-> "none",
                          out |-> analyze_technical(g.value, l)]
                    \* nothing in analyze_technical would catch it
                    ELSE [fetch |-> Candles(c), klines |-> <<>>, exc |-> g.exc,
                          out |-> NotDone]]
    /\ pc' = [pc EXCEPT ![p] = "done"]
    /\ UNCHANGED <<lookup, call, trading_pairs, populations, input, fetched, resolved, infoCalls,
                   klines, lib, analysis>>

\* the caller has the result; the task can serve another request
Finish(p) ==
    /\ pc[p] = "done"
    /\ pc' = [pc EXCEPT ![p] = "idle"]
    /\ input' = [input EXCEPT ![p] = <<>>]
    /\ fetched' = [fetched EXCEPT ![p] = NoFetch]
    /\ resolved' = [resolved EXCEPT ![p] = None]
    /\ result' = [result EXCEPT ![p] = NoResult]
    /\ UNCHANGED <<lookup, call, trading_pairs, populations, infoCalls, klines, lib, analysis>>

NextCatalog ==
    \E p \in Procs :
        \/ \E s \in Inputs : Start(p, s)
        \/ \E c \in InfoOutcomes : InfoDone(p, c)
        \/ \E c \in KlinesOutcomes, l \in LibBehaviours : KlinesDone(p, c, l)
        \/ Finish(p)

CatalogSpec == InitCatalog /\ [][NextCatalog]_vars

\* ------------------- SeqSpec: the same tasks, one request handled at a time
StartSeq(p, s) ==
    /\ \A q \in Procs : pc[q] = "idle"
    /\ Start(p, s)

NextSeq ==
    \E p \in Procs :
        \/ \E s \in Inputs : StartSeq(p, s)
        \/ \E c \in InfoOutcomes : InfoDone(p, c)
        \/ \E c \in KlinesOutcomes, l \in LibBehaviours : KlinesDone(p, c, l)
        \/ Finish(p)

SeqSpec == InitCatalog /\ [][NextSeq]_vars

\* ------------- AnalyzeSpec: analyze_technical on the value get_klines returned
MaxRows == 52

VolumePatterns == {"rising", "gaps"}

VolumeAt(vp, i) == IF vp = "gaps" /\ i % 2 = 1 THEN 0 ELSE 10 * i

\* rows whose close may be NaN
NaNSlots(n) == {1, 2, n} \cap (1..n)

\* open_time of row i of n: increasing, or the last row repeating the one
\* before it, or the last two rows in exchanged order
TimePatterns == {"increasing", "repeat", "swap"}

TimeAt(tp, i, n) ==
    IF tp = "repeat" /\ i = n /\ n > 1 THEN n - 1
    ELSE IF tp = "swap" /\ i = n /\ n > 1 THEN n - 1
    ELSE IF tp = "swap" /\ i = n - 1 THEN n
    ELSE i

Series(n, nans, vp, tp) ==
    [i \in 1..n |->
        Item(TimeAt(tp, i, n), IF i \in nans THEN NaN ELSE Num(100 + i),
             Num(VolumeAt(vp, i)), Num(1))]

InitAnalyze ==
    /\ call = NoCall
    /\ trading_pairs = [set |-> FALSE, pairs |-> {}]
    /\ populations = <<>>
    /\ pc = <<>>
    /\ input = <<>>
    /\ fetched = <<>>
    /\ resolved = <<>>
    /\ result = <<>>
    /\ infoCalls = 0
    /\ \E n \in 0..MaxRows : \E nans \in SUBSET NaNSlots(n) :
          \E vp \in VolumePatterns, tp \in TimePatterns : klines = Series(n, nans, vp, tp)
    /\ lib \in LibBehaviours
    /\ analysis = NotDone
    /\ lookup = NoLookup

Analyze ==
    /\ ~analysis.done
    /\ analysis' = analyze_technical(klines, lib)
    /\ UNCHANGED <<lookup, call, trading_pairs, populations, pc, input, fetched, resolved, result,
                   infoCalls, klines, lib>>

NextAnalyze == Analyze

AnalyzeSpec == InitAnalyze /\ [][NextAnalyze]_vars

\* ---------------------------------- CoinSpec: one get_coin_id_and_name call
MaxCoins == 7

CoinInputs == { <<"b", "t", "c">>, <<"B", "t", "c">>, <<"x">> }

CoinKinds ==
    { Coin("bitcoin", <<"b", "t", "c">>, "Bitcoin"),
      Coin("batcat", <<"B", "T", "C">>, "BatCat"),
      Coin("bitcoin-cash", <<"b", "c", "h">>, "Bitcoin Cash") }

CoinLists == UNION {[1..k -> CoinKinds] : k \in 0..MaxCoins}

FailResponses ==
    {Response("status", st, NoListing) : st \in StatusCodes \ {200}}
    \cup {Response("ClientError", 0, NoListing), Response("TimeoutError", 0, NoListing)}

\* make_api_call ending in an exception, and ending with the body b
FailOutcomes == {Outcome(make_api_call(NewCall, sc)) : sc \in [1..max_retries -> FailResponses]}
ReturnedOutcome(b) == Outcome(make_api_call(NewCall, <<Response("status", 200, b)>>))

DirectOutcomes ==
    FailOutcomes \cup {ReturnedOutcome(CoinBody(k)) : k \in CoinKinds}
    \cup {ReturnedOutcome(NoListing)}

SearchOutcomes ==
    FailOutcomes \cup {ReturnedOutcome(SearchBody(cs)) : cs \in CoinLists}
    \cup {ReturnedOutcome(NoListing)}

InitCoin ==
    /\ call = NoCall
    /\ trading_pairs = [set |-> FALSE, pairs |-> {}]
    /\ populations = <<>>
    /\ pc = <<>>
    /\ input = <<>>
    /\ fetched = <<>>
    /\ resolved = <<>>
    /\ result = <<>>
    /\ infoCalls = 0
    /\ klines = <<>>
    /\ lib = "ok"
    /\ analysis = NotDone
    /\ \E s \in CoinInputs : lookup = [NoLookup EXCEPT !.pc = "direct", !.input = s]

\* await make_api_call(.../coins/{input_lower}) resumes with the call ended as c
DirectDone(c) ==
    /\ lookup.pc = "direct"
    /\ LET d == DirectLookup(c) IN
       lookup' = IF d.hit
                 THEN [lookup EXCEPT !.pc = "done", !.hit = TRUE, !.ret = d.ret]
                 ELSE [lookup EXCEPT !.pc = "search", !.searches = lookup.searches + 1]
    /\ UNCHANGED <<call, trading_pairs, populations, pc, input, fetched, resolved, result,
                   infoCalls, klines, lib, analysis>>

\* await make_api_call(search_url, params) resumes with the call ended as c
SearchDone(c) ==
    /\ lookup.pc = "search"
    /\ LET r == CoinSearch(lookup.input, c) IN
       lookup' = [lookup EXCEPT !.pc = "done", !.search = c.state,
                                !.coins = CoinsOf(c), !.exc = r.exc, !.ret = r.ret]
    /\ UNCHANGED <<call, trading_pairs, populations, pc, input, fetched, resolved, result,
                   infoCalls, klines, lib, analysis>>

NextCoin ==
    \/ \E c \in DirectOutcomes : DirectDone(c)
    \/ \E c \in SearchOutcomes : SearchDone(c)

CoinSpec == InitCoin /\ [][NextCoin]_vars

IsTransient(r) == r.type \in {"ClientError", "TimeoutError"}
IsHttpError(r) == r.type = "status" /\ r.status # 429 /\ RaisesForStatus(r.status)

AllOfFirst(n, P(_)) == Len(call.log) >= n /\ \A i \in 1..n : P(call.log[i])
Is429(r) == r.type = "status" /\ r.status = 429

\* C1: one make_api_call issues at most max_retries GETs whatever the upstream
\* answers; a 429 and a transient error each use up one attempt of the same budget.
C1_AtMostMaxRetriesRequests ==
    /\ call.requests <= max_retries
    /\ call.requests = Len(call.log)
    /\ call.state = "running" => call.attempt = call.requests
    /\ call.state \in {"sleeping", "reading"} => call.attempt = call.requests - 1

C1_Witness ==
    /\ call.requests = max_retries
    /\ \E i \in 1..Len(call.log) : Is429(call.log[i])
    /\ \E i \in 1..Len(call.log) : IsTransient(call.log[i])

\* C2: three 429 answers in a row end the call with "Max retries exceeded" after
\* exactly three GETs: once the third is taken the call is in its last sleep,
\* with nothing left to do but raise, or has raised, so no fourth GET can bring
\* a success.
C2_Three429Exhaust ==
    AllOfFirst(max_retries, Is429) =>
        /\ call.state \in {"sleeping", "raised"}
        /\ call.state = "sleeping" => NextIteration(call).state = "raised"
        /\ call.state = "raised" => call.exc = MaxRetriesExceeded
        /\ call.requests = max_retries
        /\ Len(call.log) = max_retries

C2_Witness ==
    /\ AllOfFirst(max_retries, Is429)
    /\ call.state = "raised"
    /\ call.slept = <<1, 2, 4>>

\* C3: a status that is neither 2xx nor 429 ends the call at once with the HTTP
\* status error: that answer is the last GET and no sleep follows it.
C3_HttpErrorFailsImmediately ==
    \A k \in 1..Len(call.log) :
        IsHttpError(call.log[k]) =>
            /\ call.state = "raised"
            /\ call.exc = "ClientResponseError"
            /\ call.status = call.log[k].status
            /\ Len(call.log) = k
            /\ Len(call.slept) = k - 1

\* C4: max_retries transient errors in a row end the call, after a one-unit
\* sleep between attempts, with the retries-exhausted failure, the same one as
\* exhaustion by 429.
C4_TransientExhaustIsRetriesExhausted ==
    AllOfFirst(max_retries, IsTransient) =>
        /\ call.slept = <<1, 1>>
        /\ call.state = "raised"
        /\ call.exc = MaxRetriesExceeded

InFlight == {p \in Procs : pc[p] = "await_info"}

\* C5: whatever the interleaving of first callers of normalize_symbol, at most
\* one get_exchange_info fetch is in flight at any time.
C5_SingleFlight == Cardinality(InFlight) <= 1

\* C6: with catalog reads one after the other, make_api_call(EXCHANGE_INFO_URL)
\* is called at most once, whether that first fetch succeeded or failed; a
\* request served once the catalog is stored runs no fetch of its own.
C6_AtMostOneListingFetch ==
    /\ infoCalls <= 1
    /\ trading_pairs.set => infoCalls = 1 /\ InFlight = {}

C6_Witness ==
    /\ infoCalls = 1
    /\ trading_pairs = [set |-> TRUE, pairs |-> {}]
    /\ \E p \in Procs : pc[p] = "done" /\ ~fetched[p].done /\ input[p] = <<"b", "t", "c">>

\* C7: when the population fetch fails (make_api_call raises, or the payload
\* has no listing), get_exchange_info returns the empty set and raises nothing,
\* normalize_symbol returns None and get_klines returns [].
C7_FailedPopulationDegrades ==
    \A p \in Procs :
        (fetched[p].done /\ fetched[p].failed) =>
            /\ fetched[p].exc = "none"
            /\ fetched[p].value = {}
            /\ trading_pairs = [set |-> TRUE, pairs |-> {}]
            /\ resolved[p] = None
            /\ pc[p] = "done"
            /\ result[p].klines = <<>>
            /\ result[p].out.done /\ result[p].out.ret = "None"

C7_Witness ==
    \E p \in Procs :
        /\ fetched[p].done /\ fetched[p].cause = "KeyError"
        /\ pc[p] = "done"
        /\ result[p].klines = <<>>

\* C8: resolving X (the input uppercased, '/' and '-' removed) gives X+USDT
\* whenever the catalog has it, X+BTC only when it has X+BTC and no X+USDT, and
\* None when it has neither; "btc" against {BTCUSDT, ETHUSDT} gives BTCUSDT.
C8_UsdtBeforeBtc ==
    \A p \in Procs :
        (pc[p] \in {"await_klines", "done"} /\ trading_pairs.set) =>
            LET X == normalize(input[p])
                cat == trading_pairs.pairs
            IN /\ (X \o USDT) \in cat => resolved[p] = X \o USDT
               /\ ((X \o USDT) \notin cat /\ (X \o BTC) \in cat) => resolved[p] = X \o BTC
               /\ ((X \o USDT) \notin cat /\ (X \o BTC) \notin cat) => resolved[p] = None
               /\ (input[p] = <<"b", "t", "c">>
                   /\ cat = {<<"B","T","C","U","S","D","T">>, <<"E","T","H","U","S","D","T">>})
                    => resolved[p] = <<"B","T","C","U","S","D","T">>

C8_Witness ==
    \E p \in Procs :
        /\ input[p] = <<"E", "-", "t", "/", "h">>
        /\ trading_pairs.pairs = {<<"E","T","H","U","S","D","T">>, <<"E","T","H","B","T","C">>}
        /\ resolved[p] = <<"E","T","H","U","S","D","T">>
        /\ pc[p] = "await_klines"

ValidRows(kl) == Cardinality({i \in 1..Len(kl) : ~HasNaN(kl[i])})

\* C9: a series with fewer than 50 rows left after dropna never yields a
\* snapshot: analyze_technical returns None, from the length test when the
\* series is not empty; a snapshot comes only from at least 50 valid rows.
C9_GateBelowFifty ==
    analysis.done =>
        /\ ValidRows(klines) < 50 => analysis.ret = "None"
        /\ (ValidRows(klines) < 50 /\ klines # <<>>) =>
                analysis.logged = "Insufficient data" /\ analysis.rows = ValidRows(klines)
        /\ analysis.ret = "dict" => ValidRows(klines) >= 50

C9_Witness ==
    /\ analysis.done
    /\ Len(klines) >= 50
    /\ ValidRows(klines) = 49
    /\ analysis.ret = "None"

\* what the caller of analyze_technical receives
Returned(a) == [ret |-> a.ret, snapshot |-> a.snapshot]

\* C10: the caller can tell the outcomes apart: the value returned for
\* insufficient data differs from the one returned for no data, and the one
\* returned for a computation error differs from both.
C10_OutcomesDistinguishable ==
    analysis.done =>
        /\ analysis.logged = "Insufficient data" =>
                Returned(analysis) # Returned(analyze_technical(<<>>, lib))
        /\ analysis.logged = "Error calculating indicators" =>
                /\ Returned(analysis) # Returned(analyze_technical(<<>>, lib))
                /\ Returned(analysis) # Returned(ReturnNone("Insufficient data", 0))

\* C11: get_klines raises nothing: when the candle request fails (retries
\* exhausted, HTTP status error, transport error) or the symbol does not
\* resolve it returns [], and analyze_technical then returns None for "no
\* data" without computing an indicator.
C11_SeriesFetcherNeverRaises ==
    \A p \in Procs :
        pc[p] = "done" =>
            /\ result[p].exc = "none"
            /\ (result[p].fetch.state = "raised" \/ resolved[p] = None) =>
                    /\ result[p].klines = <<>>
                    /\ result[p].out = ReturnNone("No data available", 0)

C11_Witness ==
    \E p \in Procs :
        /\ pc[p] = "done"
        /\ resolved[p] # None
        /\ result[p].fetch.state = "raised"
        /\ result[p].fetch.exc = MaxRetriesExceeded
        /\ result[p].out.logged = "No data available"

\* the rows of a candle payload whose fields all coerce, in their order
WellFormed(rows) == SelectSeq(rows, LAMBDA it : ~CoercionFails(it))

\* C12: from every candle response get_klines returns exactly the rows whose
\* numeric fields all coerce, in their order: a row that fails coercion is
\* dropped and the well-formed rows of the same response are still returned.
C12_DropsOnlyBadRows ==
    \A p \in Procs :
        (pc[p] = "done" /\ result[p].fetch.state = "returned") =>
            result[p].klines = WellFormed(result[p].fetch.rows)

\* the search ran and returned candidates, of which those at Matching fit the input
Searched == lookup.pc = "done" /\ ~lookup.hit /\ lookup.search = "returned"
Matching ==
    {i \in 1..Len(lookup.coins) : upper(lookup.coins[i].symbol) = upper(lookup.input)}

\* C13: direct lookup failed and the search returned n >= 1 candidates, none
\* with the input as symbol (case-insensitively): the result is no coin and the
\* first min(n, 5) candidates as suggestions, in the order of the search.
C13_FirstFiveSuggestions ==
    (Searched /\ Len(lookup.coins) >= 1 /\ Matching = {}) =>
        LET n == Len(lookup.coins)
            m == IF n < 5 THEN n ELSE 5
        IN /\ lookup.ret.coin_id = "None"
           /\ lookup.ret.symbol = None
           /\ lookup.ret.name = "None"
           /\ Len(lookup.ret.suggestions) = m
           /\ \A i \in 1..m :
                /\ lookup.ret.suggestions[i].id = lookup.coins[i].id
                /\ lookup.ret.suggestions[i].name = lookup.coins[i].name

C13_Witness ==
    /\ Searched
    /\ Len(lookup.coins) = 7
    /\ Matching = {}
    /\ Len(lookup.ret.suggestions) = 5
    /\ lookup.coins[1].id # lookup.coins[2].id
    /\ lookup.coins[5].id # lookup.coins[7].id

\* C14: a direct lookup that succeeds decides the result and no search is
\* issued; when it fails one search is issued, and if candidates match the input
\* as symbol (case-insensitively) the result is the first of them in search
\* order, wherever it stands in the list.
C14_DirectThenFirstExact ==
    lookup.pc = "done" =>
        /\ lookup.hit => (lookup.searches = 0 /\ lookup.ret.coin_id # "None")
        /\ ~lookup.hit => lookup.searches = 1
        /\ (Searched /\ Matching # {}) =>
                LET first == CHOOSE i \in Matching : \A j \in Matching : i <= j IN
                /\ lookup.ret.coin_id = lookup.coins[first].id
                /\ lookup.ret.name = lookup.coins[first].name
                /\ lookup.ret.symbol = upper(lookup.input)
                /\ lookup.ret.suggestions = <<>>

C14_Witness ==
    /\ Searched
    /\ Matching = {6, 7}
    /\ lookup.coins[6].id = "batcat"
    /\ lookup.coins[7].id = "bitcoin"
    /\ lookup.ret.coin_id = "batcat"
    /\ lookup.input = <<"B", "t", "c">>

\* C15: direct lookup failed and the search failed or returned no candidates:
\* the result is (None, [], None) and no exception leaves the resolver.
C15_NotFoundEmpty ==
    (lookup.pc = "done" /\ ~lookup.hit /\ (lookup.search = "raised" \/ lookup.coins = <<>>)) =>
        /\ lookup.exc = "none"
        /\ lookup.ret = Suggest(<<>>)

C15_Witness ==
    /\ lookup.pc = "done"
    /\ lookup.search = "raised"
    /\ lookup.ret.suggestions = <<>>
    /\ lookup.ret.coin_id = "None"

\* C16: in every snapshot the 1h volume change is 0 when the volume of the row
\* before the last is 0, and the 24h change is 0 when the volume 24 rows before
\* the last is 0; such a series still yields a snapshot.
C16_ZeroPreviousVolume ==
    (analysis.done /\ ValidRows(klines) >= 50 /\ lib # "raise") =>
        LET df == dropna(klines)
            n == Len(df)
        IN /\ analysis.ret = "dict"
           /\ df[n - 1].volume.v = 0 => analysis.snapshot.volume_change_1h = 0
           /\ df[n - 24].volume.v = 0 => analysis.snapshot.volume_change_24h = 0

C16_Witness ==
    /\ analysis.ret = "dict"
    /\ LET df == dropna(klines) IN
       /\ df[Len(df) - 1].volume.v = 0
       /\ df[Len(df)].volume.v > 0
    /\ analysis.snapshot.volume_change_1h = 0
    /\ analysis.snapshot.volume_change_24h # 0

\* v / 10000 has at most 2 decimal digits
IsRoundedTo2(v) == v % 100 = 0

\* C17: every field of a returned snapshot is rounded: price and both EMAs to 2
\* digits, MACD to 4, RSI and the volume changes to 2, also when an EMA falls
\* back to the price, RSI to 50 and MACD to 0.
C17_AllFieldsRounded ==
    analysis.ret = "dict" =>
        /\ IsRoundedTo2(analysis.snapshot.price)
        /\ analysis.snapshot.rsi \in {"round(rsi, 2)", "50"}
        /\ analysis.snapshot.macd \in {"round(macd, 4)", "0"}
        /\ \A e \in {analysis.snapshot.ema20, analysis.snapshot.ema50} :
              \/ e \in {"round(ema20, 2)", "round(ema50, 2)"}
              \/ e = "price" /\ IsRoundedTo2(analysis.snapshot.price)

StrictlyIncreasing(ix) == \A i \in 1..Len(ix) - 1 : ix[i] < ix[i + 1]

DistinctTimes(kl) == {kl[i].open_time : i \in {j \in 1..Len(kl) : ~HasNaN(kl[j])}}

\* C19: the series the length test and the indicators work on is strictly
\* increasing in open_time, and rows repeating a timestamp are dropped and do
\* not count toward the 50 rows.
C19_StrictlyIncreasingIndex ==
    (analysis.done /\ klines # <<>>) =>
        /\ StrictlyIncreasing(analysis.index)
        /\ analysis.rows = Cardinality(DistinctTimes(klines))

\* C18: once normalize_symbol.trading_pairs is set no step replaces or changes
\* it, also when several first callers run concurrently.
C18_CatalogNeverChanges == [][trading_pairs.set => trading_pairs' = trading_pairs]_vars

RECURSIVE Sum(_)
Sum(q) == IF q = <<>> THEN 0 ELSE Head(q) + Sum(Tail(q))

\* the sleeps of one call, matched with the answers that caused them
SleepsFollowPolicy ==
    /\ \A k \in 1..Len(call.slept) :
          /\ Is429(call.log[k]) => call.slept[k] = 2 ^ (k - 1)
          /\ IsTransient(call.log[k]) => call.slept[k] = 1
    /\ \A k \in 1..Len(call.log) :
          /\ Is429(call.log[k]) => Len(call.slept) >= k
          /\ (IsTransient(call.log[k]) /\ k < max_retries) => Len(call.slept) >= k
    /\ Sum(call.slept) <= 7

\* C20: a 429 on 0-based attempt k is followed by a sleep of 2^k, a transient
\* error on a non-final attempt by a sleep of 1, the sleeps of one call add up
\* to at most 7, and every call eventually returns a payload or raises.
C20_BoundedBackoffAndTermination ==
    /\ []SleepsFollowPolicy
    /\ <>(call.state \in {"returned", "raised"})

C20_Witness ==
    /\ call.state = "returned"
    /\ Len(call.log) = 3
    /\ IsTransient(call.log[1])
    /\ Is429(call.log[2])
    /\ call.slept = <<1, 2>>

\* the fetch behind the first assignment to normalize_symbol.trading_pairs failed
FirstPopulationFailed == populations # <<>> /\ Head(populations)

\* C21: with requests handled one after the other, once the first listing fetch
\* has failed the stored catalog is the empty set in every later state, no
\* further listing fetch is started or in flight, and every request that has
\* been answered since resolved to None, got [] from get_klines and None for
\* "no data" from analyze_technical, whatever the upstream would answer now.
C21_FailedPopulationMemoized ==
    FirstPopulationFailed =>
        /\ trading_pairs = [set |-> TRUE, pairs |-> {}]
        /\ Len(populations) = 1
        /\ infoCalls = 1
        /\ InFlight = {}
        /\ \A p \in Procs :
              /\ pc[p] # "await_klines"
              /\ pc[p] = "done" =>
                    /\ resolved[p] = None
                    /\ result[p] = Unresolved

\* a later request, which ran no fetch of its own, for a symbol that a listing
\* the upstream can serve would resolve
C21_Witness ==
    /\ FirstPopulationFailed
    /\ \E p \in Procs :
          /\ pc[p] = "done"
          /\ ~fetched[p].done
          /\ input[p] = <<"e", "t", "h">>
          /\ \E cat \in Catalogs : Lookup(normalize(input[p]), cat) # None
          /\ result[p] = Unresolved

====
